---- MODULE Spec2Model ----
(***************************************************************************)
(* Model of the two AI service connectors of semantic-kernel (python):     *)
(*   GooglePalmChatCompletion   (gp_chat_completion.py,  "ChatAdapter")    *)
(*   HuggingFaceTextCompletion  (hf_text_completion.py,  "TextAdapter")    *)
(*                                                                         *)
(* One caller issues one call at a time (InvokePalm, InvokeHf), the called  *)
(* method runs as one action (the streaming method as a producer thread    *)
(* and a consumer generator), and the caller takes the outcome (Return).   *)
(* The two connectors share nothing, so each is checked under its own      *)
(* specification: ChatSpec and TextSpec.                                   *)
(*                                                                         *)
(* Python values: an Optional is a sequence of length <= 1 (<<>> is None), *)
(* a str is a TLA+ string, a list a sequence.  An outcome is               *)
(*   [kind |-> "str",  value |-> s]      a single string                   *)
(*   [kind |-> "list", value |-> <<..>>] a list of strings                 *)
(*   [kind |-> "raise", type, code, cause]  an exception                   *)
(*   [kind |-> "stream_end"]             an exhausted async generator      *)
(***************************************************************************)
EXTENDS Naturals, Sequences, FiniteSets, TLC

VARIABLES
    message_history,   \* GooglePalmChatCompletion._message_history (Optional)
    ctor_history,      \* the message_history argument __init__ was given
    task,              \* HuggingFaceTextCompletion.task
    pc,                \* "idle" | "called" | "streaming" | "joining" | "done"
    call,              \* the call in flight: method and arguments
    pre_history,       \* _message_history when the call in flight was issued
    backend_log,       \* backend operations performed by the call in flight
    backend_exc,       \* Optional: the exception a backend operation raised
    backend_succeeded, \* some palm.chat / reply call has returned a response
    result,            \* outcome of the call in flight
    thread,            \* streaming Thread: "none"|"running"|"ending"|"finished"|"raised"
    streamer,          \* TextIteratorStreamer queue: <<text>> entries, <<>> the stop signal
    pushed,            \* fragments the thread has put on the streamer
    received           \* fragments yielded to the caller

vars == <<message_history, ctor_history, task, pc, call, pre_history, backend_log,
          backend_exc, backend_succeeded, result, thread, streamer, pushed, received>>

chat_vars == <<message_history, ctor_history, backend_succeeded>>
stream_vars == <<thread, streamer, pushed, received>>

-----------------------------------------------------------------------------
(* Bounds of the model *)

\* longest message list a caller passes
MaxMessages == 3
\* largest number_of_responses a caller asks for
MaxResponses == 2
\* most fragments the generation thread puts on the streamer
MaxFragments == 2

-----------------------------------------------------------------------------
(* Values *)

None == <<>>
Some(x) == <<x>>

\* (role, text) pairs
Messages == {<<"system", "You are terse.">>, <<"user", "Hi">>, <<"assistant", "Hello">>}
MessageLists == UNION {[1..n -> Messages] : n \in 0..MaxMessages}

\* ChatRequestSettings / CompleteRequestSettings: the fields the connectors read
\* (penalties and token_selection_biases are copied and never read)
Settings ==
    [max_tokens : {0, 1}, number_of_responses : 1..MaxResponses, temperature : {0, 1}]
OptSettings == {None} \cup {Some(s) : s \in Settings}

Contexts == {None, Some("Be brief.\n")}
Prompts == {"Hi"}
Fragments == {"a", "b"}
Tasks == {"summarization", "text-generation", "text2text-generation"}

BackendError == "BackendError"

NoResult == [kind |-> "none"]

\* AIException(error_code, message, inner_exception=None): the positional
\* arguments in the order the connectors pass them
AIException(error_code, message, inner_exception) ==
    [kind |-> "raise", type |-> "AIException", code |-> error_code, cause |-> inner_exception]

Raise(type, cause) ==
    [kind |-> "raise", type |-> type, code |-> "None", cause |-> cause]

-----------------------------------------------------------------------------
(* The Google PaLM backend as the connector uses it *)

\* a ChatResponse: the candidates the service produced for the conversation's
\* candidate_count; .last is the content of the first candidate
ChatResponse(candidate_count, outputs) ==
    [candidate_count |-> candidate_count,
     candidates |-> [i \in 1..candidate_count |-> outputs[i]],
     last |-> outputs[1]]

\* palm.chat(model, context, examples, temperature, candidate_count, top_p, prompt, messages)
PalmChat(context, request_settings, message) ==
    [op |-> "chat", context |-> context, temperature |-> request_settings.temperature,
     candidate_count |-> request_settings.number_of_responses, message |-> message]

\* ChatResponse.reply(message): only the message is passed
PalmReply(message) == [op |-> "reply", message |-> message]

PalmConfigure == [op |-> "configure"]

\* what the backend does in one call: whether configure / chat / reply raise and
\* the text (or None) of each candidate it produces
ChatBackends ==
    [configure_raises : BOOLEAN, generate_raises : BOOLEAN,
     outputs : [1..MaxResponses -> {None, Some("Hello")}]]

-----------------------------------------------------------------------------
(* GooglePalmChatCompletion *)

\* one iteration's contribution to context (line 196)
ContextEntry(role, message) ==
    IF role = "system" THEN message \o "\n" ELSE (role \o ": " \o message) \o "\n"

\* ContextLoop without the test index < len(messages) - 1: the last message is
\* folded into the context too
RECURSIVE ContextLoop_IncludesLast(_, _, _)
ContextLoop_IncludesLast(messages, index, context) ==
    IF index > Len(messages) THEN context
    ELSE ContextLoop_IncludesLast(messages, index + 1,
                context \o ContextEntry(messages[index][1], messages[index][2]))

\* for index, (role, message) in enumerate(messages): if index < len(messages) - 1
RECURSIVE ContextLoop(_, _, _)
ContextLoop(messages, index, context) ==
    IF index > Len(messages) THEN context
    ELSE IF index - 1 < Len(messages) - 1
         THEN ContextLoop(messages, index + 1,
                          context \o ContextEntry(messages[index][1], messages[index][2]))
         ELSE ContextLoop(messages, index + 1, context)

\* lines 189-196
AssembleContext(history, messages, context) ==
    IF history = None /\ context = None
    THEN IF Len(messages) > 1 THEN Some(ContextLoop(messages, 1, "")) ELSE Some("")
    ELSE context

Sent(error, response, log, history, exc, ok) ==
    [error |-> error, response |-> response, log |-> log, history |-> history,
     exc |-> exc, ok |-> ok]

\* Converse without the reply branch: every call starts a new conversation
Converse_AlwaysStart(history, messages, request_settings, context, be) ==
    LET message == messages[Len(messages)][2]
        response == ChatResponse(request_settings.number_of_responses, be.outputs)
        log == <<PalmConfigure, PalmChat(context, request_settings, message)>>
    IN  IF be.generate_raises
        THEN Sent(AIException("ServiceError", "Google PaLM service failed to complete the prompt",
                              BackendError),
                  None, log, history, Some(BackendError), FALSE)
        ELSE Sent(NoResult, Some(response), log, Some(response), None, TRUE)

\* Converse storing the (absent) response when the backend call failed
Converse_ResetOnFailure(history, messages, request_settings, context, be) ==
    LET message == messages[Len(messages)][2]
        op == IF history = None
              THEN PalmChat(context, request_settings, message)
              ELSE PalmReply(message)
        count == IF history = None
                 THEN request_settings.number_of_responses
                 ELSE history[1].candidate_count
        response == ChatResponse(count, be.outputs)
        log == <<PalmConfigure, op>>
    IN  IF be.generate_raises
        THEN Sent(AIException("ServiceError", "Google PaLM service failed to complete the prompt",
                              BackendError),
                  None, log, None, Some(BackendError), FALSE)
        ELSE Sent(NoResult, Some(response), log, Some(response), None, TRUE)

\* lines 197-220: start or continue the conversation
Converse(history, messages, request_settings, context, be) ==
    LET message == messages[Len(messages)][2]
        op == IF history = None
              THEN PalmChat(context, request_settings, message)
              ELSE PalmReply(message)
        count == IF history = None
                 THEN request_settings.number_of_responses
                 ELSE history[1].candidate_count
        response == ChatResponse(count, be.outputs)
        log == <<PalmConfigure, op>>
    IN  IF be.generate_raises
        THEN Sent(AIException("ServiceError", "Google PaLM service failed to complete the prompt",
                              BackendError),
                  None, log, history, Some(BackendError), FALSE)
        ELSE Sent(NoResult, Some(response), log, Some(response), None, TRUE)

\* Validate without the check of the last message's role
Validate_RoleUnchecked(messages, request_settings) ==
    IF request_settings.max_tokens < 1
    THEN Some(AIException("InvalidRequest", "The max tokens must be greater than 0", "None"))
    ELSE IF Len(messages) <= 0
    THEN Some(AIException("InvalidRequest", "To complete a chat you need at least one message",
                          "None"))
    ELSE None

\* the checks of lines 164-181: the error to raise, or None
Validate(messages, request_settings) ==
    IF request_settings.max_tokens < 1
    THEN Some(AIException("InvalidRequest", "The max tokens must be greater than 0", "None"))
    ELSE IF Len(messages) <= 0
    THEN Some(AIException("InvalidRequest", "To complete a chat you need at least one message",
                          "None"))
    ELSE IF messages[Len(messages)][1] # "user"
    THEN Some(AIException("InvalidRequest", "The last message must be from the user", "None"))
    ELSE None

\* _send_chat_request (lines 123-220)
send_chat_request(history, messages, request_settings, context, be) ==
    IF request_settings = None
    THEN Sent(Raise("ValueError", "None"), None, <<>>, history, None, FALSE)
    ELSE IF Validate(messages, request_settings[1]) # None
    THEN Sent(Validate(messages, request_settings[1])[1], None, <<>>, history, None, FALSE)
    ELSE IF be.configure_raises
    THEN Sent(Raise("PermissionError", BackendError), None, <<PalmConfigure>>, history,
              Some(BackendError), FALSE)
    ELSE Converse(history, messages, request_settings[1],
                  AssembleContext(history, messages, context), be)

OrFallback(output) == IF output = None THEN "I don't know." ELSE output[1]

\* lines 67-74 and 104-111
Reconcile(number_of_responses, response) ==
    IF number_of_responses > 1
    THEN [kind |-> "list",
          value |-> [i \in 1..Len(response.candidates) |-> OrFallback(response.candidates[i])]]
    ELSE [kind |-> "str", value |-> OrFallback(response.last)]

Finish(sent, number_of_responses) ==
    /\ message_history' = sent.history
    /\ backend_log' = sent.log
    /\ backend_exc' = sent.exc
    /\ backend_succeeded' = (backend_succeeded \/ sent.ok)
    /\ result' = IF sent.error.kind = "raise" THEN sent.error
                 ELSE Reconcile(number_of_responses, sent.response[1])
    /\ pc' = "done"

\* GooglePalmChatCompletion.complete_chat_async (lines 55-74)
complete_chat_async ==
    /\ pc = "called" /\ call.adapter = "palm" /\ call.op = "complete_chat_async"
    /\ \E be \in ChatBackends :
         LET sent == send_chat_request(message_history, call.messages, call.settings,
                                       call.context, be)
         IN  Finish(sent, IF call.settings = None THEN 1
                          ELSE call.settings[1].number_of_responses)
    /\ UNCHANGED <<ctor_history, task, call, pre_history, stream_vars>>

\* GooglePalmChatCompletion.complete_async (lines 86-111)
complete_async ==
    /\ pc = "called" /\ call.adapter = "palm" /\ call.op = "complete_async"
    /\ IF call.settings = None
       THEN \* request_settings.temperature on None
            /\ result' = Raise("AttributeError", "None")
            /\ pc' = "done"
            /\ UNCHANGED <<message_history, backend_log, backend_exc, backend_succeeded>>
       ELSE \E be \in ChatBackends :
              LET prompt_to_message == <<<<"user", call.prompt>>>>
                  chat_settings == call.settings
                  sent == send_chat_request(message_history, prompt_to_message,
                                            chat_settings, None, be)
              IN  Finish(sent, chat_settings[1].number_of_responses)
    /\ UNCHANGED <<ctor_history, task, call, pre_history, stream_vars>>

\* complete_chat_stream_async and complete_stream_async (lines 76-84, 113-121)
palm_stream_unsupported ==
    /\ pc = "called" /\ call.adapter = "palm"
    /\ call.op \in {"complete_chat_stream_async", "complete_stream_async"}
    /\ result' = Raise("NotImplementedError", "None")
    /\ pc' = "done"
    /\ UNCHANGED <<chat_vars, task, call, pre_history, backend_log, backend_exc, stream_vars>>

-----------------------------------------------------------------------------
(* HuggingFaceTextCompletion *)

\* what transformers does in one call: whether GenerationConfig, the tokenizer /
\* streamer construction or the pipeline raise
TextBackends == [config_raises : BOOLEAN, setup_raises : BOOLEAN, pipeline_raises : BOOLEAN]

GenerationConfig(request_settings) ==
    [op |-> "GenerationConfig", temperature |-> request_settings.temperature,
     max_new_tokens |-> request_settings.max_tokens]

Pipeline(prompt, request_settings) ==
    [op |-> "generator", prompt |-> prompt,
     num_return_sequences |-> request_settings.number_of_responses]

StreamerSetup == [op |-> "TextIteratorStreamer"]

\* the pipeline's results: one dict per returned sequence, keyed by the task
PipelineResults(num_return_sequences) ==
    [i \in 1..num_return_sequences |->
        IF task = "summarization" THEN [summary_text |-> "Hello"]
        ELSE [generated_text |-> "Hello"]]

\* lines 95-100
Completions(results) ==
    LET completions ==
            IF task = "summarization"
            THEN [i \in 1..Len(results) |-> results[i].summary_text]
            ELSE [i \in 1..Len(results) |-> results[i].generated_text]
    IN  IF Len(completions) = 1 THEN [kind |-> "str", value |-> completions[1]]
        ELSE [kind |-> "list", value |-> completions]

\* except Exception as e: raise AIException("Hugging Face completion failed", e)
\* (lines 101-102, 154-155): the text is passed where the error code goes and the
\* exception where the message goes
HfFailed(e) == AIException("Hugging Face completion failed", e, "None")

\* HuggingFaceTextCompletion.complete_async (lines 74-102)
hf_complete_async ==
    /\ pc = "called" /\ call.adapter = "hf" /\ call.op = "complete_async"
    /\ \E be \in TextBackends :
        IF call.settings = None
        THEN /\ result' = HfFailed("AttributeError")
             /\ UNCHANGED <<backend_log, backend_exc>>
        ELSE LET request_settings == call.settings[1]
                 config == GenerationConfig(request_settings)
                 run == Pipeline(call.prompt, request_settings)
             IN  IF be.config_raises
                 THEN /\ backend_log' = <<config>>
                      /\ backend_exc' = Some(BackendError)
                      /\ result' = HfFailed(BackendError)
                 ELSE IF be.pipeline_raises
                 THEN /\ backend_log' = <<config, run>>
                      /\ backend_exc' = Some(BackendError)
                      /\ result' = HfFailed(BackendError)
                 ELSE /\ backend_log' = <<config, run>>
                      /\ backend_exc' = None
                      /\ result' = Completions(PipelineResults(run.num_return_sequences))
    /\ pc' = "done"
    /\ UNCHANGED <<chat_vars, task, call, pre_history, stream_vars>>

\* StreamRefused off by one
StreamRefused_OffByOne(request_settings) == request_settings.number_of_responses > 2

\* the check of lines 121-126
StreamRefused(request_settings) == request_settings.number_of_responses > 1

\* HuggingFaceTextCompletion.complete_stream_async up to thread.start() (lines 104-147)
hf_complete_stream_async ==
    /\ pc = "called" /\ call.adapter = "hf" /\ call.op = "complete_stream_async"
    /\ \E be \in TextBackends :
        IF call.settings = None
        THEN /\ result' = Raise("AttributeError", "None")
             /\ pc' = "done"
             /\ UNCHANGED <<backend_log, backend_exc, thread>>
        ELSE LET request_settings == call.settings[1]
                 config == GenerationConfig(request_settings)
             IN  IF StreamRefused(request_settings)
                 THEN /\ result' = AIException("InvalidConfiguration",
                                       "HuggingFace TextIteratorStreamer does not stream multiple responses",
                                       "None")
                      /\ pc' = "done"
                      /\ UNCHANGED <<backend_log, backend_exc, thread>>
                 ELSE IF be.config_raises
                 THEN /\ backend_log' = <<config>>
                      /\ backend_exc' = Some(BackendError)
                      /\ result' = HfFailed(BackendError)
                      /\ pc' = "done"
                      /\ UNCHANGED thread
                 ELSE IF be.setup_raises
                 THEN /\ backend_log' = <<config, StreamerSetup>>
                      /\ backend_exc' = Some(BackendError)
                      /\ result' = HfFailed(BackendError)
                      /\ pc' = "done"
                      /\ UNCHANGED thread
                 ELSE /\ backend_log' = <<config, StreamerSetup,
                                          Pipeline(call.prompt, request_settings)>>
                      /\ backend_exc' = None
                      /\ thread' = "running"
                      /\ pc' = "streaming"
                      /\ UNCHANGED result
    /\ UNCHANGED <<chat_vars, task, call, pre_history, streamer, pushed, received>>

\* the pipeline, in the thread, hands a piece of text to the streamer (queue.put)
thread_put ==
    /\ thread = "running"
    /\ Len(pushed) < MaxFragments
    /\ \E text \in Fragments :
         /\ streamer' = Append(streamer, Some(text))
         /\ pushed' = Append(pushed, text)
    /\ UNCHANGED <<chat_vars, task, pc, call, pre_history, backend_log, backend_exc,
                   result, thread, received>>

\* generation is over: the streamer's end() puts the stop signal
thread_end ==
    /\ thread = "running"
    /\ streamer' = Append(streamer, None)
    /\ thread' = "ending"
    /\ UNCHANGED <<chat_vars, task, pc, call, pre_history, backend_log, backend_exc,
                   result, pushed, received>>

\* the pipeline returns and the thread finishes
thread_exit ==
    /\ thread = "ending"
    /\ thread' = "finished"
    /\ UNCHANGED <<chat_vars, task, pc, call, pre_history, backend_log, backend_exc,
                   result, streamer, pushed, received>>

\* the pipeline raises inside the thread, during generation (end() is then never
\* called) or after it: the thread dies with the exception
thread_raise ==
    /\ thread \in {"running", "ending"}
    /\ thread' = "raised"
    /\ backend_exc' = Some(BackendError)
    /\ UNCHANGED <<chat_vars, task, pc, call, pre_history, backend_log,
                   result, streamer, pushed, received>>

\* for new_text in streamer: yield new_text (lines 149-150); the queue's get blocks
\* while the queue is empty, the stop signal ends the loop
stream_next ==
    /\ pc = "streaming"
    /\ streamer # <<>>
    /\ streamer' = Tail(streamer)
    /\ IF Head(streamer) = None
       THEN pc' = "joining" /\ UNCHANGED received
       ELSE received' = Append(received, Head(streamer)[1]) /\ UNCHANGED pc
    /\ UNCHANGED <<chat_vars, task, call, pre_history, backend_log, backend_exc,
                   result, thread, pushed>>

\* no join: the generator ends without waiting for the thread
Joined_NoWait == TRUE

\* thread.join() returns once the thread is no longer alive
Joined == thread \in {"finished", "raised"}

\* thread.join() and the end of the generator (line 152)
stream_join ==
    /\ pc = "joining"
    /\ Joined
    /\ result' = [kind |-> "stream_end"]
    /\ pc' = "done"
    /\ UNCHANGED <<chat_vars, task, call, pre_history, backend_log, backend_exc,
                   thread, streamer, pushed, received>>

-----------------------------------------------------------------------------
(* The caller *)

Request(adapter, op, messages, prompt, settings, context) ==
    [adapter |-> adapter, op |-> op, messages |-> messages, prompt |-> prompt,
     settings |-> settings, context |-> context]

NoCall == Request("none", "none", <<>>, "", None, None)

PalmRequests ==
    {Request("palm", "complete_chat_async", m, "", s, c) :
        m \in MessageLists, s \in OptSettings, c \in Contexts}
    \cup {Request("palm", op, <<>>, p, s, None) :
        op \in {"complete_async", "complete_stream_async"}, p \in Prompts, s \in OptSettings}
    \cup {Request("palm", "complete_chat_stream_async", <<<<"user", p>>>>, "", s, None) :
        p \in Prompts, s \in OptSettings}

HfRequests ==
    {Request("hf", op, <<>>, p, s, None) :
        op \in {"complete_async", "complete_stream_async"}, p \in Prompts, s \in OptSettings}

Invoke(requests) ==
    /\ pc = "idle"
    /\ \E r \in requests : call' = r
    /\ pre_history' = message_history
    /\ pc' = "called"
    /\ UNCHANGED <<chat_vars, task, backend_log, backend_exc, result, stream_vars>>

InvokePalm == Invoke(PalmRequests)

InvokeHf == Invoke(HfRequests)

Return ==
    /\ pc = "done"
    /\ pc' = "idle"
    /\ call' = NoCall
    /\ pre_history' = message_history
    /\ backend_log' = <<>>
    /\ backend_exc' = None
    /\ result' = NoResult
    /\ thread' = "none" /\ streamer' = <<>> /\ pushed' = <<>> /\ received' = <<>>
    /\ UNCHANGED <<chat_vars, task>>

-----------------------------------------------------------------------------

\* __init__ (gp lines 30-53, hf lines 25-72): the optional message_history and the task
Init ==
    /\ message_history \in {None, Some(ChatResponse(1, <<Some("Hello")>>))}
    /\ ctor_history = message_history
    /\ task \in Tasks
    /\ pc = "idle"
    /\ call = NoCall
    /\ pre_history = message_history
    /\ backend_log = <<>>
    /\ backend_exc = None
    /\ backend_succeeded = FALSE
    /\ result = NoResult
    /\ thread = "none" /\ streamer = <<>> /\ pushed = <<>> /\ received = <<>>

\* the Google PaLM connector and its caller
ChatNext ==
    \/ InvokePalm
    \/ Return
    \/ complete_chat_async
    \/ complete_async
    \/ palm_stream_unsupported

\* the Hugging Face connector, its generation thread and its caller
TextNext ==
    \/ InvokeHf
    \/ Return
    \/ hf_complete_async
    \/ hf_complete_stream_async
    \/ thread_put
    \/ thread_end
    \/ thread_exit
    \/ thread_raise
    \/ stream_next
    \/ stream_join

Next == ChatNext \/ TextNext

Spec == Init /\ [][Next]_vars

\* the Google PaLM connector alone (the other connector left as constructed by default)
ChatInit == Init /\ task = "text2text-generation"

ChatSpec == ChatInit /\ [][ChatNext]_vars

\* the Hugging Face connector alone
TextInit == Init /\ message_history = None

TextSpec == TextInit /\ [][TextNext]_vars

-----------------------------------------------------------------------------
(* Properties *)

Returned == pc = "done"
Succeeded == Returned /\ result.kind \in {"str", "list"}
Failed == Returned /\ result.kind = "raise"
PalmCall(ops) == call.adapter = "palm" /\ call.op \in ops
HfCall(ops) == call.adapter = "hf" /\ call.op \in ops
Started == pc \in {"streaming", "joining", "done"}

IsAIException(code) == result.kind = "raise" /\ result.type = "AIException" /\ result.code = code

\* the messages the call hands to _send_chat_request
SentMessages ==
    IF call.op = "complete_async" THEN <<<<"user", call.prompt>>>> ELSE call.messages

\* the call passes the checks made before any backend call
WellFormed ==
    /\ call.settings # None
    /\ call.settings[1].max_tokens >= 1
    /\ SentMessages # <<>>
    /\ SentMessages[Len(SentMessages)][1] = "user"

LastText == SentMessages[Len(SentMessages)][2]

\* the conversation calls (start, reply) among the backend operations of the call
Conversation == SelectSeq(backend_log, LAMBDA o : o.op \in {"chat", "reply"})

Front(seq) == SubSeq(seq, 1, Len(seq) - 1)

IsPrefix(a, b) == Len(a) <= Len(b) /\ a = SubSeq(b, 1, Len(a))

\* the context section 4.1 describes: one entry per message, in order
RECURSIVE Folded(_)
Folded(msgs) ==
    IF msgs = <<>> THEN ""
    ELSE LET m == msgs[Len(msgs)]
             entry == IF m[1] = "system" THEN m[2] ELSE m[1] \o ": " \o m[2]
         IN  Folded(Front(msgs)) \o entry \o "\n"

\* C1: every completion call that returns successfully returns a list of exactly
\* number_of_responses strings when that number is above 1 (each the candidate's text
\* or "I don't know."), and a single string when it is 1, whatever calls came before.
C1_ShapeFollowsRequest ==
    (Succeeded /\ (PalmCall({"complete_chat_async", "complete_async"})
                   \/ HfCall({"complete_async"})))
    => IF call.settings[1].number_of_responses > 1
       THEN /\ result.kind = "list"
            /\ Len(result.value) = call.settings[1].number_of_responses
            /\ \A i \in 1..Len(result.value) : result.value[i] \in {"Hello", "I don't know."}
       ELSE result.kind = "str"

\* C2 as stated: on an adapter created without a handle, the first successful call
\* makes exactly one start call carrying the context, the settings and the last
\* message's text, and every later call makes exactly one reply call carrying only the
\* last message's text and no start call, whatever it was given.
C2_EveryLaterCallReplies ==
    (Returned /\ call.adapter = "palm" /\ ctor_history = None)
    => IF pre_history = None
       THEN Succeeded =>
              Conversation = <<PalmChat(IF call.context = None
                                        THEN Some(Folded(Front(SentMessages)))
                                        ELSE call.context,
                                        call.settings[1], LastText)>>
       ELSE /\ SentMessages # <<>>
            /\ Conversation = <<PalmReply(LastText)>>

\* C2 amended: on an adapter created without a handle, the first successful call makes
\* exactly one start call carrying the context, the settings and the last message's
\* text; every later completion call that passes validation and whose configure call
\* does not raise makes exactly one reply call carrying only the last message's text;
\* and no later call of any kind makes a start call or more than one reply call.
C2_AcceptedLaterCallReplies ==
    (Returned /\ call.adapter = "palm" /\ ctor_history = None)
    => IF pre_history = None
       THEN Succeeded =>
              Conversation = <<PalmChat(IF call.context = None
                                        THEN Some(Folded(Front(SentMessages)))
                                        ELSE call.context,
                                        call.settings[1], LastText)>>
       ELSE IF /\ call.op \in {"complete_chat_async", "complete_async"}
               /\ WellFormed
               /\ ~(result.kind = "raise" /\ result.type = "PermissionError")
            THEN Conversation = <<PalmReply(LastText)>>
            ELSE Conversation = <<>>

\* a later call, given a context, other settings and earlier messages, that replied
C2_Witness ==
    /\ Returned /\ PalmCall({"complete_chat_async"}) /\ ctor_history = None
    /\ pre_history # None
    /\ call.context # None
    /\ Len(call.messages) = MaxMessages
    /\ call.settings # None
    /\ call.settings[1].number_of_responses # pre_history[1].candidate_count
    /\ Conversation = <<PalmReply("Hi")>>
    /\ Succeeded

\* C3: a chat completion call with settings whose message list is empty or does not
\* end with a "user" message fails with InvalidRequest, performs no backend operation
\* and leaves the conversation handle as it was, in the Fresh and the Active state.
C3_BadMessagesRejected ==
    (/\ Returned /\ PalmCall({"complete_chat_async"})
     /\ call.settings # None
     /\ (call.messages = <<>> \/ call.messages[Len(call.messages)][1] # "user"))
    => /\ IsAIException("InvalidRequest")
       /\ backend_log = <<>>
       /\ message_history = pre_history

\* an Active adapter, max_tokens in range, the last message from the assistant
C3_Witness ==
    /\ Returned /\ PalmCall({"complete_chat_async"})
    /\ call.settings # None
    /\ call.settings[1].max_tokens >= 1
    /\ pre_history # None
    /\ Len(call.messages) = 2
    /\ call.messages[2][1] = "assistant"
    /\ IsAIException("InvalidRequest")

\* C4: a request with max_tokens = 0 fails with InvalidRequest before any backend
\* call, on complete_chat_async and complete_async of the PaLM connector and on
\* complete_async and complete_stream_async of the Hugging Face connector.
C4_ZeroMaxTokensRejected ==
    (/\ Started
     /\ (PalmCall({"complete_chat_async", "complete_async"})
         \/ HfCall({"complete_async", "complete_stream_async"}))
     /\ call.settings # None
     /\ call.settings[1].max_tokens = 0)
    => /\ Returned
       /\ IsAIException("InvalidRequest")
       /\ backend_log = <<>>
       /\ thread = "none"

\* C5: a Hugging Face streaming request for more than one response fails with
\* InvalidConfiguration and does no generation work: nothing is constructed, no thread
\* is started, the pipeline is not invoked and no fragment is yielded.
C5_MultiStreamRefused ==
    (/\ Started /\ HfCall({"complete_stream_async"})
     /\ call.settings # None
     /\ call.settings[1].number_of_responses > 1)
    => /\ Returned
       /\ IsAIException("InvalidConfiguration")
       /\ backend_log = <<>>
       /\ thread = "none"
       /\ streamer = <<>> /\ pushed = <<>> /\ received = <<>>

C5_Witness ==
    /\ Returned /\ HfCall({"complete_stream_async"})
    /\ call.settings # None
    /\ call.settings[1].number_of_responses = 2
    /\ call.settings[1].max_tokens = 1
    /\ IsAIException("InvalidConfiguration")

\* C6: whenever a backend operation raises, in configuration or in generation, the
\* call fails with the adapter error of kind ServiceError whose cause is the original
\* exception, and no result is returned.
C6_BackendFailureIsServiceError ==
    (Returned /\ backend_exc # None)
    => /\ IsAIException("ServiceError")
       /\ result.cause = backend_exc[1]

\* C7: in the Fresh state and without an explicit context, the context of the start
\* call is the fold of all messages but the last, in order (text alone for "system",
\* "{role}: {text}" otherwise, each followed by a newline; empty for one message), and
\* the last message's text alone is the message sent.
C7_ContextIsFoldOfEarlierMessages ==
    (/\ Returned /\ PalmCall({"complete_chat_async"})
     /\ pre_history = None
     /\ call.context = None
     /\ WellFormed
     /\ ~(result.kind = "raise" /\ result.type = "PermissionError"))
    => /\ Len(Conversation) = 1
       /\ Conversation[1].op = "chat"
       /\ Conversation[1].context = Some(Folded(Front(call.messages)))
       /\ Conversation[1].message = LastText

\* the example of section 8
C7_Witness ==
    /\ Returned /\ PalmCall({"complete_chat_async"})
    /\ pre_history = None
    /\ call.context = None
    /\ call.messages = <<<<"system", "You are terse.">>, <<"user", "Hi">>>>
    /\ Len(Conversation) = 1
    /\ Conversation[1].context = Some("You are terse.\n")
    /\ Conversation[1].message = "Hi"

\* C8: the adapter is Active exactly when a handle was given at construction or an
\* earlier start or reply call succeeded; a failed call leaves the handle unchanged
\* and no call moves the adapter from Active back to Fresh.
C8_ActiveIffGivenOrSucceeded ==
    /\ (message_history # None) <=> (ctor_history # None \/ backend_succeeded)
    /\ Failed => message_history = pre_history
    /\ pre_history # None => message_history # None

\* a start call that failed in the Fresh state
C8_Witness ==
    /\ Failed /\ call.adapter = "palm"
    /\ pre_history = None
    /\ Len(Conversation) = 1
    /\ message_history = None

\* C9: in an accepted streaming call the caller receives the fragments the thread put
\* on the streamer, each once and in order, and the call ends only after the last
\* fragment was delivered and the thread has finished.
C9_StreamDeliversAllThenJoins ==
    /\ IsPrefix(received, pushed)
    /\ (Returned /\ HfCall({"complete_stream_async"}) /\ result.kind = "stream_end")
       => /\ received = pushed
          /\ streamer = <<>>
          /\ thread \in {"finished", "raised"}

\* a drained stream of two different fragments
C9_Witness ==
    /\ Returned /\ HfCall({"complete_stream_async"}) /\ result.kind = "stream_end"
    /\ Len(received) = 2
    /\ received[1] # received[2]
    /\ thread = "finished"

\* C10: an accepted streaming call whose caller keeps consuming never waits forever:
\* while it has not returned, the thread or the consumer can still take a step.
C10_StreamNeverStuck ==
    (pc \in {"streaming", "joining"})
    => ENABLED (thread_put \/ thread_end \/ thread_exit \/ thread_raise
                \/ stream_next \/ stream_join)

====
